---- MODULE Spec2Model ----
(***************************************************************************)
(* PokeForge client: the IndexedDB store (src/types.ts, IndexedDbService), *)
(* the remote generator client (src/services/pokemonApiService.ts) and the *)
(* React state controller (src/App.tsx).                                   *)
(*                                                                         *)
(* A handler invocation is a process in a slot of `procs`.  It captures    *)
(* the React state of the render it was created in (tokenBalance,          *)
(* pokemons, achievements) and runs from one `await` to the next in one    *)
(* step: the completion of the awaited request and the synchronous code    *)
(* that follows it.  Every store write completes in one of three ways      *)
(* (WriteOutcomes).                                                        *)
(***************************************************************************)
EXTENDS Integers, Sequences, FiniteSets, TLC

(***************************************************************************)
(* Bounds of the model.                                                    *)
(***************************************************************************)
MaxIds == 2        \* identifiers the remote generator can hand out
MaxProcs == 2      \* handler invocations in flight at the same time
MaxOps == 2        \* user intents and page loads in one behaviour
MaxFaults == 1     \* store writes that do not commit in one behaviour
MaxNow == 2        \* last instant of the clock
TicksPerDay == 2   \* instants in one calendar day
RandDenom == 6     \* Math.random() is drawn from the grid j / RandDenom

(***************************************************************************)
(* Program constants.                                                      *)
(***************************************************************************)
GENERATION_COST == 10
DEFAULT_BALANCE == 100

Ids == 1..MaxIds
Slots == 1..MaxProcs

Rarities == {"COMMON", "RARE", "EPIC", "LEGENDARY", "MYTHIC"}
ALL_ACHIEVEMENTS == <<"FIRST_FORGE", "TEN_FORGES", "FIRST_SALE", "LEGENDARY_FORGE">>
AchIds == {ALL_ACHIEVEMENTS[i] : i \in 1..Len(ALL_ACHIEVEMENTS)}

\* How a store write ends (withTransaction): the request succeeds and the
\* transaction commits; the request or the transaction fails before the
\* promise is settled (rejected, nothing written); or the request succeeds,
\* the promise is resolved, and the transaction aborts afterwards (the
\* caller sees success, nothing is written).
WriteOutcomes == {"ok", "reject", "lateAbort"}

VARIABLES
  dbPokemons,        \* object store 'pokemons': id -> Pokemon
  dbSettings,        \* object store 'settings': key -> record
  dbAchievements,    \* object store 'achievements': id -> Achievement
  pokemons,          \* React state
  tokenBalance,
  achievements,
  isLoading,
  isGeneratingPokemon,
  message,
  isModalOpen,
  modalOnConfirm,
  isModalConfirmLoading,
  isDailyBonusModalOpen,
  dailyBonusAmount,
  procs,             \* handler invocations in flight
  now,               \* the clock (instants)
  ops,               \* intents the behaviour may still issue
  faults,            \* store writes that did not commit so far
  credits,           \* day -> bonus writes that raised the persisted balance
  last               \* the step just taken

dbVars == <<dbPokemons, dbSettings, dbAchievements>>
memVars == <<pokemons, tokenBalance, achievements, isLoading, isGeneratingPokemon>>
modalVars == <<isModalOpen, modalOnConfirm, isModalConfirmLoading>>
bonusVars == <<isDailyBonusModalOpen, dailyBonusAmount>>
vars == <<dbPokemons, dbSettings, dbAchievements, pokemons, tokenBalance,
          achievements, isLoading, isGeneratingPokemon, message, isModalOpen,
          modalOnConfirm, isModalConfirmLoading, isDailyBonusModalOpen,
          dailyBonusAmount, procs, now, ops, faults, credits, last>>

(***************************************************************************)
(* The store.                                                              *)
(***************************************************************************)
\* IDBObjectStore.put: replace or create the entry under rec.id.
StorePut(store, rec) ==
  [k \in DOMAIN store \cup {rec.id} |-> IF k = rec.id THEN rec ELSE store[k]]

\* add never fails on the key: it behaves as put.
StoreAddFails_Never(store, rec) == FALSE
\* IDBObjectStore.add: fails (ConstraintError) when the key exists.
StoreAddFails(store, rec) == rec.id \in DOMAIN store

\* IDBObjectStore.getAll on 'pokemons': the entries in key order.
RECURSIVE GetAllFrom(_, _)
GetAllFrom(store, k) ==
  IF k > MaxIds THEN <<>>
  ELSE (IF k \in DOMAIN store THEN <<store[k]>> ELSE <<>>) \o GetAllFrom(store, k + 1)

GetPokemons == GetAllFrom(dbPokemons, 1)

HasBalance == "tokenBalance" \in DOMAIN dbSettings
PersistedBalance == dbSettings["tokenBalance"].amount
HasBonus == "dailyBonus" \in DOMAIN dbSettings

TokenBalanceRecord(amount) == [id |-> "tokenBalance", amount |-> amount]
DailyBonusRecord(t) == [id |-> "dailyBonus", lastClaimed |-> t]

\* The effect of a write on a store, by outcome.
Written(store, rec, outcome) == IF outcome = "ok" THEN StorePut(store, rec) ELSE store

\* The outcomes a write can still have, and the faults after it.
CanEnd(outcome) == outcome = "ok" \/ faults < MaxFaults
FaultsAfter(outcome) == IF outcome = "ok" THEN faults ELSE faults + 1

(***************************************************************************)
(* Dates.  An instant is a count of ticks; toISOString/new Date(iso) keep   *)
(* the instant, toDateString keeps its calendar day only.                  *)
(***************************************************************************)
ToDateString(t) == t \div TicksPerDay
Days == 0..ToDateString(MaxNow)

(***************************************************************************)
(* Pure functions of the controller.                                       *)
(***************************************************************************)
\* The two highest tiers are worth the same.
getResellValue_Capped(rarity) ==
  CASE rarity = "COMMON" -> 5
    [] rarity = "RARE" -> 10
    [] rarity = "EPIC" -> 20
    [] rarity \in {"LEGENDARY", "MYTHIC"} -> 40
    [] OTHER -> 0

getResellValue(rarity) ==
  CASE rarity = "COMMON" -> 5
    [] rarity = "RARE" -> 10
    [] rarity = "EPIC" -> 20
    [] rarity = "LEGENDARY" -> 40
    [] rarity = "MYTHIC" -> 80
    [] OTHER -> 0

\* An item is bought back at its resale value.
getBuyPrice_Single(rarity) == getResellValue(rarity)
getBuyPrice(rarity) == getResellValue(rarity) * 2

\* Array.prototype.sort with (a, b) => b.generatedAt - a.generatedAt: stable,
\* descending by generatedAt.
\* The new element goes to the front, wherever it belongs.
InsertDesc_Front(s, x) == <<x>> \o s
InsertDesc(s, x) ==
  LET k == Cardinality({i \in 1..Len(s) : s[i].generatedAt >= x.generatedAt})
  IN SubSeq(s, 1, k) \o <<x>> \o SubSeq(s, k + 1, Len(s))

RECURSIVE SortByGeneratedAtDesc(_)
SortByGeneratedAtDesc(s) ==
  IF s = <<>> THEN <<>>
  ELSE InsertDesc(SortByGeneratedAtDesc(SubSeq(s, 1, Len(s) - 1)), s[Len(s)])

\* pokemons.map(p => p.id === u.id ? u : p)
MapReplace(s, u) == [i \in 1..Len(s) |-> IF s[i].id = u.id THEN u ELSE s[i]]

Some(s, P(_)) == \E i \in 1..Len(s) : P(s[i])

(***************************************************************************)
(* Records.                                                                *)
(***************************************************************************)
NullTime == -1     \* unlockedAt: null

NoPokemon ==
  [id |-> 0, name |-> "", rarity |-> "", imageBase64 |-> "", generatedAt |-> 0,
   status |-> "", isFavorite |-> FALSE]

NoAchievement == [id |-> "", unlocked |-> FALSE, unlockedAt |-> NullTime]

NoMessage == [type |-> "", text |-> ""]

\* A handler invocation: its program counter, the React state its closure
\* captured, its locals, and what is recorded about it for the properties:
\*   log     the requests it issued and their completions, in order
\*   db0     the persisted balance when it started
\*   mem0    the in-memory balance when it started
\*   n0      the number of persisted items when it started
\*   synced  the in-memory mirror held what the store held when it started
\*   alone   no other invocation was in flight when it started (for a
\*           resale: when its dialog was opened), none has started since
\*   late    one of its writes was resolved and then not committed
IdleProc ==
  [kind |-> "idle", pc |-> "idle",
   tokenBalance |-> 0, pokemons |-> <<>>, achievements |-> <<>>,
   pokemon |-> NoPokemon, amount |-> 0,
   currentPokemons |-> <<>>, k |-> 0, pending |-> NoAchievement, unlocked |-> <<>>,
   at |-> 0, cause |-> "", log |-> <<>>, db0 |-> 0, mem0 |-> 0, n0 |-> 0,
   synced |-> FALSE, alone |-> FALSE, late |-> FALSE]

\* The closure stored by setModalOnConfirm.
NoClosure ==
  [pokemon |-> NoPokemon, tokenBalance |-> 0, pokemons |-> <<>>, achievements |-> <<>>,
   resellValue |-> 0, alone |-> FALSE]

Active(s) == procs[s].kind # "idle"
Quiescent == \A s \in Slots : ~Active(s)
HasFreeSlot == \E s \in Slots : ~Active(s)
FreeSlot == CHOOSE s \in Slots : ~Active(s) /\ \A r \in Slots : r < s => Active(r)

\* The in-memory mirror holds what the store holds.
SeqToSet(s) == {s[i] : i \in 1..Len(s)}
StoreToSet(store) == {store[k] : k \in DOMAIN store}
Reconciled ==
  /\ HasBalance
  /\ tokenBalance = PersistedBalance
  /\ SeqToSet(pokemons) = StoreToSet(dbPokemons)

\* Another invocation starts: the ones in flight no longer run alone.
Disturbed(ps) == [s \in Slots |-> [ps[s] EXCEPT !.alone = FALSE]]
DisturbedClosure(c) == [c EXCEPT !.alone = FALSE]

Ev(name, p) == [ev |-> name, p |-> p]

\* Entries of an invocation's log.
Issue(step) == [e |-> "issue", step |-> step]
Done(step) == [e |-> "done", step |-> step]
Fail(step) == [e |-> "fail", step |-> step]
Logged(p, e) == [p EXCEPT !.log = Append(@, e)]

\* The catch restores the debited balance.
originalTokenBalance_Debited(p) == p.tokenBalance - GENERATION_COST
\* handleGeneratePokemon: the balance its closure captured, and the balance
\* it debits to.
originalTokenBalance(p) == p.tokenBalance
newBalanceAfterDeduction(p) == originalTokenBalance(p) - GENERATION_COST

\* showMessage(type, text)
Msg(type, text) == [type |-> type, text |-> text]

(***************************************************************************)
(* checkAndUnlockAchievements(currentPokemons, currentAchievements)        *)
(***************************************************************************)
\* The loop never skips a definition.
IsUnlockedIn_Never(currentAchievements, id) == FALSE
IsUnlockedIn(currentAchievements, id) ==
  \E i \in 1..Len(currentAchievements) :
    currentAchievements[i].id = id /\ currentAchievements[i].unlocked

shouldUnlock(id, currentPokemons) ==
  CASE id = "FIRST_FORGE" -> Len(currentPokemons) >= 1
    [] id = "TEN_FORGES" -> Len(currentPokemons) >= 10
    [] id = "FIRST_SALE" ->
         \E i \in 1..Len(currentPokemons) : currentPokemons[i].status = "RESOLD"
    [] id = "LEGENDARY_FORGE" ->
         \E i \in 1..Len(currentPokemons) :
           currentPokemons[i].rarity \in {"LEGENDARY", "MYTHIC"}
    [] OTHER -> FALSE

\* The loop body reaches the write of definition j.
NeedsUnlock(j, currentPokemons, currentAchievements) ==
  /\ ~IsUnlockedIn(currentAchievements, ALL_ACHIEVEMENTS[j])
  /\ shouldUnlock(ALL_ACHIEVEMENTS[j], currentPokemons)

\* The first definition from index k on whose write the loop reaches, or
\* Len(ALL_ACHIEVEMENTS) + 1 when the loop ends without one.
NextUnlock(currentPokemons, currentAchievements, k) ==
  LET J == {j \in k..Len(ALL_ACHIEVEMENTS) :
              NeedsUnlock(j, currentPokemons, currentAchievements)}
  IN IF J = {} THEN Len(ALL_ACHIEVEMENTS) + 1
     ELSE CHOOSE j \in J : \A i \in J : j <= i

\* setAchievements(prev => ...): each unlocked entry replaces the entry with
\* its id, or is pushed.
MergeOne(prev, u) ==
  IF \E i \in 1..Len(prev) : prev[i].id = u.id
  THEN [i \in 1..Len(prev) |-> IF prev[i].id = u.id THEN u ELSE prev[i]]
  ELSE Append(prev, u)

RECURSIVE MergeUnlocked(_, _)
MergeUnlocked(prev, unlocked) ==
  IF unlocked = <<>> THEN prev
  ELSE MergeUnlocked(MergeOne(prev, Head(unlocked)), Tail(unlocked))

NewAchievement(id, t) == [id |-> id, unlocked |-> TRUE, unlockedAt |-> t]

\* The caller's code after `await checkAndUnlockAchievements(...)` returns,
\* to the end of the handler (its `finally` included).  m is the message
\* shown so far in this step.
Completed(s, p, m) ==
  /\ procs' = [procs EXCEPT ![s] = IdleProc]
  /\ CASE p.kind = "gen" ->
            /\ message' = Msg("success", "generated")
            /\ isGeneratingPokemon' = FALSE
            /\ UNCHANGED <<modalVars, isLoading>>
            /\ last' = Ev("genOk", p)
       [] p.kind = "resell" ->
            /\ message' = Msg("success", "resold")
            /\ isModalConfirmLoading' = FALSE
            /\ isModalOpen' = FALSE
            /\ UNCHANGED <<modalOnConfirm, isGeneratingPokemon, isLoading>>
            /\ last' = Ev("resellOk", p)
       [] OTHER ->
            /\ message' = m
            /\ isLoading' = FALSE
            /\ UNCHANGED <<modalVars, isGeneratingPokemon>>
            /\ last' = Ev("loadOk", p)

\* checkAndUnlockAchievements from definition k on, up to its next await or
\* through its end and the caller's end.  unl: unlockedAchievements so far;
\* prev: the achievements state as this step has set it so far.
RunCheck(s, p, currentPokemons, currentAchievements, k, unl, m, prev) ==
  LET j == NextUnlock(currentPokemons, currentAchievements, k)
  IN IF j <= Len(ALL_ACHIEVEMENTS)
     THEN /\ procs' = [procs EXCEPT ![s] =
                 [p EXCEPT !.pc = "ach", !.k = j,
                           !.currentPokemons = currentPokemons,
                           !.achievements = currentAchievements,
                           !.pending = NewAchievement(ALL_ACHIEVEMENTS[j], now),
                           !.unlocked = unl]]
          /\ achievements' = prev
          /\ message' = m
          /\ UNCHANGED <<modalVars, isGeneratingPokemon, isLoading>>
          /\ last' = Ev("await", IdleProc)
     ELSE /\ achievements' = IF unl = <<>> THEN prev ELSE MergeUnlocked(prev, unl)
          /\ Completed(s, p, m)

\* The caller's `catch` (and `finally`) when a step of the handler throws.
\* A generation restores the balance in memory and issues the compensating
\* write; the others report and end.
Caught(s, p, cause) ==
  CASE p.kind = "gen" ->
         /\ tokenBalance' = originalTokenBalance(p)
         /\ procs' = [procs EXCEPT ![s] =
                [Logged(Logged(p, Fail(cause)), Issue("rollback"))
                   EXCEPT !.pc = "rollback", !.cause = cause]]
         /\ UNCHANGED <<message, modalVars, isGeneratingPokemon, isLoading>>
         /\ last' = Ev("await", IdleProc)
    [] p.kind = "resell" ->
         /\ tokenBalance' = tokenBalance
         /\ procs' = [procs EXCEPT ![s] = IdleProc]
         /\ message' = Msg("error", "resell failed")
         /\ isModalConfirmLoading' = FALSE
         /\ isModalOpen' = FALSE
         /\ UNCHANGED <<modalOnConfirm, isGeneratingPokemon, isLoading>>
         /\ last' = Ev("resellFail", [p EXCEPT !.cause = cause])
    [] OTHER ->
         /\ tokenBalance' = tokenBalance
         /\ procs' = [procs EXCEPT ![s] = IdleProc]
         /\ message' = Msg("error", "load failed")
         /\ isLoading' = FALSE
         /\ UNCHANGED <<modalVars, isGeneratingPokemon>>
         /\ last' = Ev("loadFail", [p EXCEPT !.cause = cause])

\* The pending updateAchievement of an evaluation completes.
AchStep(s) ==
  /\ procs[s].pc = "ach"
  /\ \E outcome \in WriteOutcomes :
       LET p == [procs[s] EXCEPT !.late = @ \/ outcome = "lateAbort"]
       IN /\ CanEnd(outcome)
          /\ faults' = FaultsAfter(outcome)
          /\ dbAchievements' = Written(dbAchievements, p.pending, outcome)
          /\ IF outcome = "reject"
             THEN /\ Caught(s, p, "check")
                  /\ achievements' = achievements
             ELSE /\ tokenBalance' = tokenBalance
                  /\ RunCheck(s, p, p.currentPokemons, p.achievements, p.k + 1,
                              Append(p.unlocked, p.pending),
                              Msg("success", "achievement unlocked"), achievements)
  /\ UNCHANGED <<dbPokemons, dbSettings, pokemons, bonusVars, now, ops, credits>>

(***************************************************************************)
(* fetchAppData: the page load.                                            *)
(***************************************************************************)
\* Math.random() = j / RandDenom; Math.floor(Math.random() * 6) + 5.
RandomDraws == {0, RandDenom - 1}
DailyBonusAmountFor(j) == ((j * 6) \div RandDenom) + 5

\* The check compares instants, not calendar days.
BonusOffered_Instant(settings, t) ==
  \/ "dailyBonus" \notin DOMAIN settings
  \/ settings["dailyBonus"].lastClaimed # t

\* The claim check of fetchAppData.
BonusOffered(settings, t) ==
  \/ "dailyBonus" \notin DOMAIN settings
  \/ ToDateString(settings["dailyBonus"].lastClaimed) # ToDateString(t)

\* ALL_ACHIEVEMENTS.map(def => stored entry, or the definition locked).
AllAchievementsFrom(store) ==
  [i \in 1..Len(ALL_ACHIEVEMENTS) |->
     IF ALL_ACHIEVEMENTS[i] \in DOMAIN store
     THEN store[ALL_ACHIEVEMENTS[i]]
     ELSE [id |-> ALL_ACHIEVEMENTS[i], unlocked |-> FALSE, unlockedAt |-> NullTime]]

LoadProc == [IdleProc EXCEPT !.kind = "load", !.pc = "fetch"]

\* openDatabase and the five reads of Promise.all complete.  getTokenBalance
\* adds the default record when none is stored.
LoadFetch(s) ==
  /\ procs[s].pc = "fetch"
  /\ \E readFails \in BOOLEAN, outcome \in WriteOutcomes, j \in RandomDraws :
       LET created == ~HasBalance
           p == [procs[s] EXCEPT !.late = created /\ outcome = "lateAbort"]
           balance == IF created THEN TokenBalanceRecord(DEFAULT_BALANCE)
                      ELSE dbSettings["tokenBalance"]
           fetchedPokemons == SortByGeneratedAtDesc(GetPokemons)
           allAchievements == AllAchievementsFrom(dbAchievements)
       IN /\ created \/ outcome = "ok"
          /\ CanEnd(outcome)
          /\ faults' = FaultsAfter(outcome)
          /\ dbSettings' = IF created THEN Written(dbSettings, balance, outcome)
                           ELSE dbSettings
          /\ IF readFails \/ (created /\ outcome = "reject")
             THEN /\ Caught(s, p, "load")
                  /\ UNCHANGED <<pokemons, achievements, bonusVars>>
             ELSE /\ pokemons' = fetchedPokemons
                  /\ tokenBalance' = balance.amount
                  /\ IF BonusOffered(dbSettings, now)
                     THEN /\ dailyBonusAmount' = DailyBonusAmountFor(j)
                          /\ isDailyBonusModalOpen' = TRUE
                     ELSE /\ j = 0
                          /\ UNCHANGED bonusVars
                  /\ RunCheck(s, p, fetchedPokemons, allAchievements, 1, <<>>,
                              message, allAchievements)
  /\ UNCHANGED <<dbPokemons, dbAchievements, now, ops, credits>>

\* The page is loaded again: the React state is constructed anew and the
\* handlers in flight are gone.
Reload ==
  /\ ops > 0
  /\ ops' = ops - 1
  /\ pokemons' = <<>>
  /\ tokenBalance' = 0
  /\ achievements' = <<>>
  /\ isLoading' = TRUE
  /\ isGeneratingPokemon' = FALSE
  /\ message' = NoMessage
  /\ isModalOpen' = FALSE
  /\ modalOnConfirm' = NoClosure
  /\ isModalConfirmLoading' = FALSE
  /\ isDailyBonusModalOpen' = FALSE
  /\ dailyBonusAmount' = 0
  /\ procs' = [s \in Slots |-> IF s = 1 THEN LoadProc ELSE IdleProc]
  /\ last' = Ev("reload", IdleProc)
  /\ UNCHANGED <<dbVars, now, faults, credits>>

\* Time passes.
Tick ==
  /\ now < MaxNow
  /\ ops > 0
  /\ ops' = ops - 1
  /\ now' = now + 1
  /\ last' = Ev("tick", IdleProc)
  /\ UNCHANGED <<dbVars, memVars, message, modalVars, bonusVars, procs, faults, credits>>

(***************************************************************************)
(* The remote generator client: pokemonApiService.generatePokemon.         *)
(***************************************************************************)
ApiRarityCodes == {"F", "E", "D", "C", "B", "A", "S", "S+", "X"}

\* The default of the switch is the highest tier.
mapApiRarityToEnum_DefaultMythic(apiRarity) ==
  CASE apiRarity \in {"F", "E"} -> "COMMON"
    [] apiRarity \in {"D", "C"} -> "RARE"
    [] apiRarity = "B" -> "EPIC"
    [] apiRarity \in {"A", "S"} -> "LEGENDARY"
    [] OTHER -> "MYTHIC"

mapApiRarityToEnum(apiRarity) ==
  CASE apiRarity \in {"F", "E"} -> "COMMON"
    [] apiRarity \in {"D", "C"} -> "RARE"
    [] apiRarity = "B" -> "EPIC"
    [] apiRarity \in {"A", "S"} -> "LEGENDARY"
    [] apiRarity = "S+" -> "MYTHIC"
    [] OTHER -> "COMMON"

\* The generation timestamp the remote gives the item it identifies by id:
\* a later identifier is not a later item.
RemoteGeneratedAt(id) == MaxIds - id
RemoteErrors == {"timeout", "unreachable", "rejected", "malformed"}

\* What one call of the endpoint comes to, with rarity codes from `codes`.
ResponsesWith(codes) ==
  {[kind |-> "item", id |-> i, rarity |-> c, generatedAt |-> RemoteGeneratedAt(i)] :
     i \in Ids, c \in codes}
    \cup [kind : RemoteErrors, id : {0}, rarity : {""}, generatedAt : {0}]

\* The codes the remote answers with in the behaviours of the controller:
\* one of the lowest tier, one of the highest.
ControllerCodes == {"F", "S+"}
Responses == ResponsesWith(ControllerCodes)

PokemonFrom(data) ==
  [id |-> data.id, name |-> "name", rarity |-> mapApiRarityToEnum(data.rarity),
   imageBase64 |-> "image", generatedAt |-> data.generatedAt,
   status |-> "OWNED", isFavorite |-> FALSE]

(***************************************************************************)
(* handleGeneratePokemon                                                   *)
(***************************************************************************)
\* The remote call is made before the debit is written.
GenSteps_RemoteFirst == <<"remote", "debit", "insert">>
\* The awaited calls of the try block, in program order.
GenSteps == <<"debit", "remote", "insert">>

\* The call that follows `step` in the try block.
StepAfter(step) ==
  LET i == CHOOSE k \in 1..Len(GenSteps) : GenSteps[k] = step
  IN IF i < Len(GenSteps) THEN GenSteps[i + 1] ELSE "check"

\* What an invocation records when it starts.
Started(kind, pc) ==
  [IdleProc EXCEPT !.kind = kind, !.pc = pc,
                   !.tokenBalance = tokenBalance,
                   !.pokemons = pokemons,
                   !.achievements = achievements,
                   !.db0 = IF HasBalance THEN PersistedBalance ELSE 0,
                   !.mem0 = tokenBalance,
                   !.n0 = Cardinality(DOMAIN dbPokemons),
                   !.synced = Reconciled,
                   !.alone = Quiescent]

\* The guard compares against zero.
GenerateGuard_Positive(balance) == balance <= 0
GenerateGuard(balance) == balance < GENERATION_COST

GenStart ==
  /\ ops > 0
  /\ ops' = ops - 1
  /\ IF GenerateGuard(tokenBalance)
     THEN /\ message' = Msg("warning", "generation cost")
          /\ last' = Ev("genRefused", IdleProc)
          /\ UNCHANGED <<memVars, modalVars, procs>>
     ELSE /\ HasFreeSlot
          /\ isGeneratingPokemon' = TRUE
          /\ tokenBalance' = newBalanceAfterDeduction(Started("gen", GenSteps[1]))
          /\ procs' = [Disturbed(procs) EXCEPT ![FreeSlot] =
                         Logged(Started("gen", GenSteps[1]), Issue(GenSteps[1]))]
          /\ modalOnConfirm' = DisturbedClosure(modalOnConfirm)
          /\ last' = Ev("genStart", Started("gen", GenSteps[1]))
          /\ UNCHANGED <<pokemons, achievements, isLoading, message, isModalOpen,
                         isModalConfirmLoading>>
  /\ UNCHANGED <<dbVars, bonusVars, now, faults, credits>>

\* await updateTokenBalance(newBalanceAfterDeduction) completes.
GenDebit(s) ==
  /\ procs[s].kind = "gen" /\ procs[s].pc = "debit"
  /\ \E outcome \in WriteOutcomes :
       LET p == [procs[s] EXCEPT !.late = @ \/ outcome = "lateAbort"]
       IN /\ CanEnd(outcome)
          /\ faults' = FaultsAfter(outcome)
          /\ dbSettings' = Written(dbSettings,
                             TokenBalanceRecord(newBalanceAfterDeduction(p)), outcome)
          /\ IF outcome = "reject"
             THEN Caught(s, p, "debit")
             ELSE /\ procs' = [procs EXCEPT ![s] =
                       [Logged(Logged(p, Done("debit")), Issue(StepAfter("debit")))
                          EXCEPT !.pc = StepAfter("debit")]]
                  /\ last' = Ev("await", IdleProc)
                  /\ UNCHANGED <<tokenBalance, message, modalVars, isGeneratingPokemon,
                                 isLoading>>
  /\ UNCHANGED <<dbPokemons, dbAchievements, pokemons, achievements, bonusVars, now, ops,
                 credits>>

\* await pokemonApiService.generatePokemon() completes.
GenRemote(s) ==
  /\ procs[s].kind = "gen" /\ procs[s].pc = "remote"
  /\ \E data \in Responses :
       LET p == procs[s]
       IN IF data.kind # "item"
          THEN Caught(s, p, "remote")
          ELSE /\ procs' = [procs EXCEPT ![s] =
                    [Logged(Logged(p, Done("remote")), Issue(StepAfter("remote")))
                       EXCEPT !.pc = StepAfter("remote"), !.pokemon = PokemonFrom(data)]]
               /\ last' = Ev("await", IdleProc)
               /\ UNCHANGED <<tokenBalance, message, modalVars, isGeneratingPokemon,
                              isLoading>>
  /\ UNCHANGED <<dbVars, pokemons, achievements, bonusVars, now, ops, faults, credits>>

\* The remote await step by step.  fetch resolves on the response's head,
\* and clearTimeout is called before the body is read.
GenFetch(s) ==
  /\ procs[s].kind = "gen" /\ procs[s].pc = "remote"
  /\ \E ok \in BOOLEAN :
       procs' = [procs EXCEPT ![s].pc = IF ok THEN "json" ELSE "errorJson"]
  /\ last' = Ev("await", IdleProc)
  /\ UNCHANGED <<dbVars, memVars, message, modalVars, bonusVars, now, ops, faults,
                 credits>>

\* fetch rejects: with AbortError when the timer set before it fires
\* (controller.abort()) at the latest, with a TypeError on a network failure
\* before that.
GenFetchRejects(s) ==
  /\ procs[s].kind = "gen" /\ procs[s].pc = "remote"
  /\ Caught(s, procs[s], "remote")
  /\ UNCHANGED <<dbVars, pokemons, achievements, bonusVars, now, ops, faults, credits>>

\* await res.json() completes: the body of an error response is thrown as an
\* Error, the body of a success response is validated and returned.
GenJson(s) ==
  /\ procs[s].kind = "gen" /\ procs[s].pc \in {"json", "errorJson"}
  /\ \E data \in Responses :
       LET p == procs[s]
       IN /\ data.kind = (IF p.pc = "errorJson" THEN "rejected" ELSE data.kind)
          /\ data.kind \in {"item", "malformed", "rejected"}
          /\ p.pc = "json" => data.kind # "rejected"
          /\ IF data.kind # "item"
             THEN Caught(s, p, "remote")
             ELSE /\ procs' = [procs EXCEPT ![s] =
                       [Logged(Logged(p, Done("remote")), Issue(StepAfter("remote")))
                          EXCEPT !.pc = StepAfter("remote"), !.pokemon = PokemonFrom(data)]]
                  /\ last' = Ev("await", IdleProc)
                  /\ UNCHANGED <<tokenBalance, message, modalVars, isGeneratingPokemon,
                                 isLoading>>
  /\ UNCHANGED <<dbVars, pokemons, achievements, bonusVars, now, ops, faults, credits>>

\* await addPokemon(newPokemon) completes.
GenInsert(s) ==
  /\ procs[s].kind = "gen" /\ procs[s].pc = "insert"
  /\ \E outcome \in WriteOutcomes :
       LET p == [procs[s] EXCEPT !.late = @ \/ outcome = "lateAbort"]
           updatedPokemons == SortByGeneratedAtDesc(<<p.pokemon>> \o p.pokemons)
       IN /\ StoreAddFails(dbPokemons, p.pokemon) => outcome = "reject"
          /\ StoreAddFails(dbPokemons, p.pokemon) \/ CanEnd(outcome)
          /\ faults' = IF StoreAddFails(dbPokemons, p.pokemon) THEN faults
                        ELSE FaultsAfter(outcome)
          /\ dbPokemons' = Written(dbPokemons, p.pokemon, outcome)
          /\ IF outcome = "reject"
             THEN /\ Caught(s, p, "insert")
                  /\ UNCHANGED <<pokemons, achievements>>
             ELSE /\ pokemons' = updatedPokemons
                  /\ tokenBalance' = tokenBalance
                  /\ RunCheck(s, Logged(p, Done("insert")), updatedPokemons, p.achievements,
                              1, <<>>, message, achievements)
  /\ UNCHANGED <<dbSettings, dbAchievements, bonusVars, now, ops, credits>>

\* await updateTokenBalance(originalTokenBalance) in the catch completes.
GenRollback(s) ==
  /\ procs[s].kind = "gen" /\ procs[s].pc = "rollback"
  /\ \E outcome \in WriteOutcomes :
       LET p == [procs[s] EXCEPT !.late = @ \/ outcome = "lateAbort"]
       IN /\ CanEnd(outcome)
          /\ faults' = FaultsAfter(outcome)
          /\ dbSettings' = Written(dbSettings, TokenBalanceRecord(originalTokenBalance(p)),
                                   outcome)
          /\ IF outcome = "reject"
             THEN /\ message' = message
                  /\ last' = Ev("genRollbackThrew", Logged(p, Fail("rollback")))
             ELSE /\ message' = Msg("error", "generation failed")
                  /\ last' = Ev("genRolledBack", Logged(p, Done("rollback")))
          /\ isGeneratingPokemon' = FALSE
          /\ procs' = [procs EXCEPT ![s] = IdleProc]
  /\ UNCHANGED <<dbPokemons, dbAchievements, pokemons, tokenBalance, achievements,
                 isLoading, modalVars, bonusVars, now, ops, credits>>

(***************************************************************************)
(* The views derived from the item list.                                   *)
(***************************************************************************)
collectionPokemons(collectionFilter) ==
  SelectSeq(pokemons, LAMBDA q :
    IF collectionFilter = "ALL" THEN TRUE
    ELSE IF collectionFilter = "FAVORITES" THEN q.isFavorite /\ q.status = "OWNED"
    ELSE q.status = collectionFilter)

marketPokemons(marketRarityFilter) ==
  SelectSeq(pokemons, LAMBDA q :
    q.status = "RESOLD" /\ (marketRarityFilter = "ALL" \/ q.rarity = marketRarityFilter))

(***************************************************************************)
(* handleResellConfirmation: the dialog, and the closure it stores.        *)
(***************************************************************************)
\* The collection and the market render the items once the load is over.
Shown(i, status) == ~isLoading /\ i \in 1..Len(pokemons) /\ pokemons[i].status = status

OpenResell ==
  /\ ops > 0
  /\ ops' = ops - 1
  /\ \E i \in 1..Len(pokemons) :
       /\ Shown(i, "OWNED")
       /\ modalOnConfirm' =
            [pokemon |-> pokemons[i], tokenBalance |-> tokenBalance,
             pokemons |-> pokemons, achievements |-> achievements,
             resellValue |-> getResellValue(pokemons[i].rarity),
             alone |-> Quiescent]
  /\ isModalOpen' = TRUE
  /\ last' = Ev("openResell", IdleProc)
  /\ UNCHANGED <<dbVars, memVars, message, isModalConfirmLoading, bonusVars, procs,
                 now, faults, credits>>

\* closeModal: the cancel button, the cross, Escape, a click outside.
CloseModal ==
  /\ isModalOpen
  /\ isModalOpen' = FALSE
  /\ last' = Ev("closeModal", IdleProc)
  /\ UNCHANGED <<dbVars, memVars, message, modalOnConfirm, isModalConfirmLoading,
                 bonusVars, procs, now, ops, faults, credits>>

\* The confirm button runs the stored closure.
ConfirmResell ==
  /\ isModalOpen /\ modalOnConfirm # NoClosure /\ ~isModalConfirmLoading
  /\ HasFreeSlot
  /\ LET c == modalOnConfirm
         p == [IdleProc EXCEPT !.kind = "resell", !.pc = "r_item",
                               !.tokenBalance = c.tokenBalance,
                               !.pokemons = c.pokemons,
                               !.achievements = c.achievements,
                               !.pokemon = c.pokemon,
                               !.amount = c.resellValue,
                               !.db0 = IF HasBalance THEN PersistedBalance ELSE 0,
                               !.mem0 = tokenBalance,
                               !.n0 = Cardinality(DOMAIN dbPokemons),
                               !.synced = Reconciled,
                               !.alone = c.alone /\ Quiescent]
     IN /\ procs' = [Disturbed(procs) EXCEPT ![FreeSlot] = p]
        /\ last' = Ev("resellStart", p)
  /\ isModalConfirmLoading' = TRUE
  /\ modalOnConfirm' = DisturbedClosure(modalOnConfirm)
  /\ UNCHANGED <<dbVars, memVars, message, isModalOpen, bonusVars, now, ops, faults,
                 credits>>

\* await updatePokemon(updatedPokemon) completes.
ResellItem(s) ==
  /\ procs[s].kind = "resell" /\ procs[s].pc = "r_item"
  /\ \E outcome \in WriteOutcomes :
       LET p == [procs[s] EXCEPT !.late = @ \/ outcome = "lateAbort"]
           updatedPokemon == [p.pokemon EXCEPT !.status = "RESOLD"]
       IN /\ CanEnd(outcome)
          /\ faults' = FaultsAfter(outcome)
          /\ dbPokemons' = Written(dbPokemons, updatedPokemon, outcome)
          /\ IF outcome = "reject"
             THEN Caught(s, p, "item")
             ELSE /\ procs' = [procs EXCEPT ![s] = [p EXCEPT !.pc = "r_bal"]]
                  /\ last' = Ev("await", IdleProc)
                  /\ UNCHANGED <<tokenBalance, message, modalVars, isGeneratingPokemon,
                                 isLoading>>
  /\ UNCHANGED <<dbSettings, dbAchievements, pokemons, achievements, bonusVars, now, ops,
                 credits>>

\* await updateTokenBalance(newBalance) completes.
ResellBalance(s) ==
  /\ procs[s].kind = "resell" /\ procs[s].pc = "r_bal"
  /\ \E outcome \in WriteOutcomes :
       LET p == [procs[s] EXCEPT !.late = @ \/ outcome = "lateAbort"]
           updatedPokemon == [p.pokemon EXCEPT !.status = "RESOLD"]
           newBalance == p.tokenBalance + p.amount
           updatedPokemons == MapReplace(p.pokemons, updatedPokemon)
       IN /\ CanEnd(outcome)
          /\ faults' = FaultsAfter(outcome)
          /\ dbSettings' = Written(dbSettings, TokenBalanceRecord(newBalance), outcome)
          /\ IF outcome = "reject"
             THEN /\ Caught(s, p, "balance")
                  /\ UNCHANGED <<pokemons, achievements>>
             ELSE /\ pokemons' = updatedPokemons
                  /\ tokenBalance' = newBalance
                  /\ RunCheck(s, p, updatedPokemons, p.achievements, 1, <<>>, message,
                              achievements)
  /\ UNCHANGED <<dbPokemons, dbAchievements, bonusVars, now, ops, credits>>

(***************************************************************************)
(* handleBuyPokemon                                                        *)
(***************************************************************************)
\* The guard is missing.
BuyGuard_None(balance, buyPrice) == FALSE
\* The guard compares against the resale value.
BuyGuard_Resale(balance, buyPrice) == balance < buyPrice \div 2
BuyGuard(balance, buyPrice) == balance < buyPrice

\* The intent buy(item) on an item of the market.
BuyStart ==
  /\ ops > 0
  /\ ops' = ops - 1
  /\ \E i \in 1..Len(pokemons) :
       LET buyPrice == getBuyPrice(pokemons[i].rarity)
           p == [Started("buy", "b_item") EXCEPT !.pokemon = pokemons[i],
                                                  !.amount = buyPrice]
       IN /\ Shown(i, "RESOLD")
          /\ IF BuyGuard(tokenBalance, buyPrice)
             THEN /\ message' = Msg("warning", "not enough tokens")
                  /\ last' = Ev("buyRefused", p)
                  /\ UNCHANGED <<procs, modalOnConfirm>>
             ELSE /\ HasFreeSlot
                  /\ procs' = [Disturbed(procs) EXCEPT ![FreeSlot] = p]
                  /\ modalOnConfirm' = DisturbedClosure(modalOnConfirm)
                  /\ last' = Ev("buyStart", p)
                  /\ UNCHANGED message
  /\ UNCHANGED <<dbVars, memVars, isModalOpen, isModalConfirmLoading, bonusVars, now,
                 faults, credits>>

\* await updatePokemon(updatedPokemon) completes.
BuyItem(s) ==
  /\ procs[s].kind = "buy" /\ procs[s].pc = "b_item"
  /\ \E outcome \in WriteOutcomes :
       LET p == [procs[s] EXCEPT !.late = @ \/ outcome = "lateAbort"]
           updatedPokemon == [p.pokemon EXCEPT !.status = "OWNED"]
       IN /\ CanEnd(outcome)
          /\ faults' = FaultsAfter(outcome)
          /\ dbPokemons' = Written(dbPokemons, updatedPokemon, outcome)
          /\ IF outcome = "reject"
             THEN /\ procs' = [procs EXCEPT ![s] = IdleProc]
                  /\ message' = Msg("error", "purchase failed")
                  /\ last' = Ev("buyFail", p)
             ELSE /\ procs' = [procs EXCEPT ![s] = [p EXCEPT !.pc = "b_bal"]]
                  /\ last' = Ev("await", IdleProc)
                  /\ UNCHANGED message
  /\ UNCHANGED <<dbSettings, dbAchievements, memVars, modalVars, bonusVars, now, ops,
                 credits>>

\* await updateTokenBalance(newBalance) completes.
BuyBalance(s) ==
  /\ procs[s].kind = "buy" /\ procs[s].pc = "b_bal"
  /\ \E outcome \in WriteOutcomes :
       LET p == [procs[s] EXCEPT !.late = @ \/ outcome = "lateAbort"]
           updatedPokemon == [p.pokemon EXCEPT !.status = "OWNED"]
           newBalance == p.tokenBalance - p.amount
       IN /\ CanEnd(outcome)
          /\ faults' = FaultsAfter(outcome)
          /\ dbSettings' = Written(dbSettings, TokenBalanceRecord(newBalance), outcome)
          /\ IF outcome = "reject"
             THEN /\ message' = Msg("error", "purchase failed")
                  /\ last' = Ev("buyFail", p)
                  /\ UNCHANGED <<pokemons, tokenBalance>>
             ELSE /\ pokemons' = MapReplace(pokemons, updatedPokemon)
                  /\ tokenBalance' = newBalance
                  /\ message' = Msg("success", "bought")
                  /\ last' = Ev("buyOk", p)
          /\ procs' = [procs EXCEPT ![s] = IdleProc]
  /\ UNCHANGED <<dbPokemons, dbAchievements, achievements, isLoading, isGeneratingPokemon,
                 modalVars, bonusVars, now, ops, credits>>

(***************************************************************************)
(* handleToggleFavorite                                                    *)
(***************************************************************************)
\* pokemons.find(p => p.id === pokemonId): the first item with the identifier.
Find(items, pokemonId) ==
  items[CHOOSE k \in 1..Len(items) :
          /\ items[k].id = pokemonId
          /\ \A j \in 1..(k - 1) : items[j].id # pokemonId]

\* The star of the card of item i calls the handler with the item's id.
ToggleFavorite ==
  /\ ops > 0
  /\ ops' = ops - 1
  /\ HasFreeSlot
  /\ \E i \in 1..Len(pokemons) :
       LET pokemon == Find(pokemons, pokemons[i].id)
           p == [Started("fav", "f_item") EXCEPT
                   !.pokemon = [pokemon EXCEPT !.isFavorite = ~@]]
       IN /\ Shown(i, "OWNED")
          /\ procs' = [Disturbed(procs) EXCEPT ![FreeSlot] = p]
          /\ last' = Ev("favStart", p)
  /\ modalOnConfirm' = DisturbedClosure(modalOnConfirm)
  /\ UNCHANGED <<dbVars, memVars, message, isModalOpen, isModalConfirmLoading, bonusVars,
                 now, faults, credits>>

\* await updatePokemon(updatedPokemon) completes.
FavoriteItem(s) ==
  /\ procs[s].kind = "fav" /\ procs[s].pc = "f_item"
  /\ \E outcome \in WriteOutcomes :
       LET p == [procs[s] EXCEPT !.late = @ \/ outcome = "lateAbort"]
       IN /\ CanEnd(outcome)
          /\ faults' = FaultsAfter(outcome)
          /\ dbPokemons' = Written(dbPokemons, p.pokemon, outcome)
          /\ IF outcome = "reject"
             THEN /\ message' = Msg("error", "favorite failed")
                  /\ last' = Ev("favFail", p)
                  /\ UNCHANGED pokemons
             ELSE /\ pokemons' = MapReplace(p.pokemons, p.pokemon)
                  /\ last' = Ev("favOk", p)
                  /\ UNCHANGED message
          /\ procs' = [procs EXCEPT ![s] = IdleProc]
  /\ UNCHANGED <<dbSettings, dbAchievements, tokenBalance, achievements, isLoading,
                 isGeneratingPokemon, modalVars, bonusVars, now, ops, credits>>

(***************************************************************************)
(* handleClaimDailyBonus, and the bonus dialog.                            *)
(***************************************************************************)
\* The confirm button of the bonus dialog.
ClaimStart ==
  /\ ops > 0
  /\ ops' = ops - 1
  /\ isDailyBonusModalOpen
  /\ HasFreeSlot
  /\ LET p == [Started("claim", "c_bal") EXCEPT !.amount = dailyBonusAmount]
     IN /\ procs' = [Disturbed(procs) EXCEPT ![FreeSlot] = p]
        /\ last' = Ev("claimStart", p)
  /\ modalOnConfirm' = DisturbedClosure(modalOnConfirm)
  /\ UNCHANGED <<dbVars, memVars, message, isModalOpen, isModalConfirmLoading, bonusVars,
                 now, faults, credits>>

\* await updateTokenBalance(newBalance) completes; the status write is issued
\* with the instant of its call.  A rejection leaves the handler (no catch).
ClaimBalance(s) ==
  /\ procs[s].kind = "claim" /\ procs[s].pc = "c_bal"
  /\ \E outcome \in WriteOutcomes :
       LET p == [procs[s] EXCEPT !.late = @ \/ outcome = "lateAbort"]
           newBalance == p.tokenBalance + p.amount
           raised == outcome = "ok" /\ (~HasBalance \/ PersistedBalance < newBalance)
       IN /\ CanEnd(outcome)
          /\ faults' = FaultsAfter(outcome)
          /\ dbSettings' = Written(dbSettings, TokenBalanceRecord(newBalance), outcome)
          /\ credits' = IF raised
                        THEN [credits EXCEPT ![ToDateString(now)] = @ + 1]
                        ELSE credits
          /\ IF outcome = "reject"
             THEN /\ procs' = [procs EXCEPT ![s] = IdleProc]
                  /\ last' = Ev("claimThrew", p)
             ELSE /\ procs' = [procs EXCEPT ![s] = [p EXCEPT !.pc = "c_status", !.at = now]]
                  /\ last' = Ev("await", IdleProc)
  /\ UNCHANGED <<dbPokemons, dbAchievements, memVars, message, modalVars, bonusVars, now,
                 ops>>

\* await updateDailyBonusStatus(...) completes.
ClaimStatus(s) ==
  /\ procs[s].kind = "claim" /\ procs[s].pc = "c_status"
  /\ \E outcome \in WriteOutcomes :
       LET p == [procs[s] EXCEPT !.late = @ \/ outcome = "lateAbort"]
       IN /\ CanEnd(outcome)
          /\ faults' = FaultsAfter(outcome)
          /\ dbSettings' = Written(dbSettings, DailyBonusRecord(p.at), outcome)
          /\ IF outcome = "reject"
             THEN /\ last' = Ev("claimThrew", p)
                  /\ UNCHANGED <<tokenBalance, isDailyBonusModalOpen, message>>
             ELSE /\ tokenBalance' = p.tokenBalance + p.amount
                  /\ isDailyBonusModalOpen' = FALSE
                  /\ message' = Msg("success", "bonus received")
                  /\ last' = Ev("claimOk", p)
          /\ procs' = [procs EXCEPT ![s] = IdleProc]
  /\ UNCHANGED <<dbPokemons, dbAchievements, pokemons, achievements, isLoading,
                 isGeneratingPokemon, modalVars, dailyBonusAmount, now, ops, credits>>

\* onClose of the bonus dialog.
CloseBonus ==
  /\ isDailyBonusModalOpen
  /\ isDailyBonusModalOpen' = FALSE
  /\ last' = Ev("closeBonus", IdleProc)
  /\ UNCHANGED <<dbVars, memVars, message, modalVars, dailyBonusAmount, procs, now, ops,
                 faults, credits>>

(***************************************************************************)
(* Initial states: the store as an earlier session left it, the React      *)
(* state as constructed, fetchAppData started by the mount effect.         *)
(***************************************************************************)
InitPokemon(rarity, status) ==
  [id |-> 1, name |-> "name", rarity |-> rarity, imageBase64 |-> "image",
   generatedAt |-> RemoteGeneratedAt(1), status |-> status, isFavorite |-> FALSE]

\* A returning player: a balance, the bonus claimed at instant 0.
InitSettings(b) ==
  [k \in {"tokenBalance", "dailyBonus"} |->
     IF k = "tokenBalance" THEN TokenBalanceRecord(b) ELSE DailyBonusRecord(0)]

RICH_BALANCE == 160   \* enough for one purchase of any item
POOR_BALANCE == 5     \* enough for none, nor for a generation

\* The achievements an earlier session unlocked for the stored items.
InitAchievements(items) ==
  LET U == {ALL_ACHIEVEMENTS[j] : j \in {i \in 1..Len(ALL_ACHIEVEMENTS) :
                                          shouldUnlock(ALL_ACHIEVEMENTS[i], items)}}
  IN [id \in U |-> NewAchievement(id, 0)]

\* The first run: nothing stored.
FirstRun ==
  /\ dbPokemons = [k \in {} |-> NoPokemon]
  /\ dbAchievements = [k \in {} |-> NoAchievement]
  /\ dbSettings = [k \in {} |-> TokenBalanceRecord(0)]

\* A returning player with one item and balance b.
Returning(r, st, b) ==
  /\ dbPokemons = [k \in {1} |-> InitPokemon(r, st)]
  /\ dbAchievements = InitAchievements(<<InitPokemon(r, st)>>)
  /\ dbSettings = InitSettings(b)

\* The React state as constructed (useState initial values), the mount
\* effect having called fetchAppData; n intents to come.
Mounted(n) ==
  /\ pokemons = <<>>
  /\ tokenBalance = 0
  /\ achievements = <<>>
  /\ isLoading = TRUE
  /\ isGeneratingPokemon = FALSE
  /\ message = NoMessage
  /\ isModalOpen = FALSE
  /\ modalOnConfirm = NoClosure
  /\ isModalConfirmLoading = FALSE
  /\ isDailyBonusModalOpen = FALSE
  /\ dailyBonusAmount = 0
  /\ procs = [s \in Slots |-> IF s = 1 THEN LoadProc ELSE IdleProc]
  /\ now = TicksPerDay - 1
  /\ ops = n
  /\ faults = 0
  /\ credits = [d \in Days |-> 0]
  /\ last = Ev("init", IdleProc)

Init ==
  /\ \/ FirstRun
     \/ \E r \in Rarities, st \in {"OWNED", "RESOLD"} : Returning(r, st, RICH_BALANCE)
     \/ Returning("COMMON", "RESOLD", POOR_BALANCE)
  /\ Mounted(MaxOps)

Next ==
  \/ \E s \in Slots : LoadFetch(s)
  \/ \E s \in Slots : AchStep(s)
  \/ Reload
  \/ Tick
  \/ GenStart
  \/ \E s \in Slots : GenDebit(s)
  \/ \E s \in Slots : GenRemote(s)
  \/ \E s \in Slots : GenInsert(s)
  \/ \E s \in Slots : GenRollback(s)
  \/ OpenResell
  \/ CloseModal
  \/ ConfirmResell
  \/ \E s \in Slots : ResellItem(s)
  \/ \E s \in Slots : ResellBalance(s)
  \/ BuyStart
  \/ \E s \in Slots : BuyItem(s)
  \/ \E s \in Slots : BuyBalance(s)
  \/ ToggleFavorite
  \/ \E s \in Slots : FavoriteItem(s)
  \/ ClaimStart
  \/ \E s \in Slots : ClaimBalance(s)
  \/ \E s \in Slots : ClaimStatus(s)
  \/ CloseBonus

Spec == Init /\ [][Next]_vars

(***************************************************************************)
(* The daily bonus on its own, over more intents: page loads, the clock    *)
(* and the bonus dialog.                                                   *)
(***************************************************************************)
MaxBonusOps == 4   \* intents in one behaviour of BonusSpec

BonusInit ==
  /\ \/ FirstRun
     \/ Returning("COMMON", "OWNED", RICH_BALANCE)
  /\ Mounted(MaxBonusOps)

BonusNext ==
  \/ \E s \in Slots : LoadFetch(s)
  \/ Reload
  \/ Tick
  \/ ClaimStart
  \/ \E s \in Slots : ClaimBalance(s)
  \/ \E s \in Slots : ClaimStatus(s)
  \/ CloseBonus

BonusSpec == BonusInit /\ [][BonusNext]_vars

(***************************************************************************)
(* The achievements on their own, over more intents: page loads, the       *)
(* clock and generations, from the first run.                              *)
(***************************************************************************)
MaxAchOps == 3     \* intents in one behaviour of AchSpec

AchInit == FirstRun /\ Mounted(MaxAchOps)

AchNext ==
  \/ \E s \in Slots : LoadFetch(s)
  \/ \E s \in Slots : AchStep(s)
  \/ Reload
  \/ Tick
  \/ GenStart
  \/ \E s \in Slots : GenDebit(s)
  \/ \E s \in Slots : GenRemote(s)
  \/ \E s \in Slots : GenInsert(s)
  \/ \E s \in Slots : GenRollback(s)

AchSpec == AchInit /\ [][AchNext]_vars

(***************************************************************************)
(* Page loads on their own: the achievement evaluation of fetchAppData     *)
(* runs again and again on the items of a store that no handler changes.   *)
(* The store starts with one item and any of the achievements an earlier   *)
(* session may have left unlocked for it.                                  *)
(***************************************************************************)
MaxIdemOps == 3    \* page loads and clock ticks in one behaviour of IdemSpec

\* The achievements an earlier session can have unlocked with these items
\* in the store, a bought-back item having been sold once.
UnlockableWith(items) ==
  {ALL_ACHIEVEMENTS[j] : j \in {i \in 1..Len(ALL_ACHIEVEMENTS) :
       \/ shouldUnlock(ALL_ACHIEVEMENTS[i], items)
       \/ ALL_ACHIEVEMENTS[i] = "FIRST_SALE" /\ Len(items) >= 1}}

IdemInit ==
  /\ \/ FirstRun
     \/ \E r \in Rarities, st \in {"OWNED", "RESOLD"} :
          /\ dbPokemons = [k \in {1} |-> InitPokemon(r, st)]
          /\ \E U \in SUBSET UnlockableWith(<<InitPokemon(r, st)>>) :
               dbAchievements = [id \in U |-> NewAchievement(id, 0)]
          /\ dbSettings = InitSettings(RICH_BALANCE)
  /\ Mounted(MaxIdemOps)

IdemNext ==
  \/ \E s \in Slots : LoadFetch(s)
  \/ \E s \in Slots : AchStep(s)
  \/ Reload
  \/ Tick

IdemSpec == IdemInit /\ [][IdemNext]_vars

(***************************************************************************)
(* The item handlers on their own, over more intents, from an empty        *)
(* collection: generation, resale, purchase and the favorite toggle.       *)
(***************************************************************************)
MaxItemOps == 3    \* intents in one behaviour of ItemSpec

\* After the first run: no item yet, the day's bonus of 5 claimed.
BonusClaimedOnly ==
  /\ dbPokemons = [k \in {} |-> NoPokemon]
  /\ dbAchievements = [k \in {} |-> NoAchievement]
  /\ dbSettings = InitSettings(DEFAULT_BALANCE + DailyBonusAmountFor(0))

ItemInit == BonusClaimedOnly /\ Mounted(MaxItemOps)

ItemNext ==
  \/ \E s \in Slots : LoadFetch(s)
  \/ \E s \in Slots : AchStep(s)
  \/ GenStart
  \/ \E s \in Slots : GenDebit(s)
  \/ \E s \in Slots : GenRemote(s)
  \/ \E s \in Slots : GenInsert(s)
  \/ \E s \in Slots : GenRollback(s)
  \/ OpenResell
  \/ CloseModal
  \/ ConfirmResell
  \/ \E s \in Slots : ResellItem(s)
  \/ \E s \in Slots : ResellBalance(s)
  \/ BuyStart
  \/ \E s \in Slots : BuyItem(s)
  \/ \E s \in Slots : BuyBalance(s)
  \/ ToggleFavorite
  \/ \E s \in Slots : FavoriteItem(s)

ItemSpec == ItemInit /\ [][ItemNext]_vars

(***************************************************************************)
(* The service calls on the 'settings' store, one transaction each.  The   *)
(* slots of procs hold calls of IndexedDbService; a readwrite transaction  *)
(* runs when the transactions created before it on the store are finished. *)
(***************************************************************************)
MaxServiceOps == 4     \* service calls in one behaviour

PlayerSettingsRecord(theme, isMuted, playerName) ==
  [id |-> "playerSettings", theme |-> theme, isMuted |-> isMuted,
   playerName |-> playerName]

initialBalance == TokenBalanceRecord(DEFAULT_BALANCE)
defaultSettings == PlayerSettingsRecord("dark", TRUE, "Ash")

NoCall == [kind |-> "idle", pc |-> "idle", rec |-> TokenBalanceRecord(0), k |-> 0]

\* A call that just created its transaction: k transactions are ahead of it.
Call(kind, pc, rec) ==
  [kind |-> kind, pc |-> pc, rec |-> rec,
   k |-> Cardinality({r \in Slots : procs[r].pc # "idle"})]

\* db.transaction(storeNames, 'readwrite'): the transaction is started once
\* every readwrite transaction created before it on the store is finished.
TxRuns(s) == procs[s].k = 0

\* The transaction of call s is finished: the next one may run.
Finished(s) ==
  [r \in Slots |-> IF r = s THEN NoCall
                   ELSE IF procs[r].pc # "idle" /\ procs[r].k > 0
                        THEN [procs[r] EXCEPT !.k = @ - 1]
                        ELSE procs[r]]

\* What a call reports to its caller.
Resolved(p, result, wrote) ==
  Ev("resolved", [call |-> p.kind, result |-> result, wrote |-> wrote, error |-> ""])
Rejected(p, error) ==
  Ev("rejected", [call |-> p.kind, result |-> p.rec, wrote |-> FALSE, error |-> error])

\* The records callers pass to the two upserts.
SettingsArguments ==
  {PlayerSettingsRecord("light", TRUE, "Ash"), PlayerSettingsRecord("dark", FALSE, "Ash")}
BalanceArguments == {TokenBalanceRecord(DEFAULT_BALANCE - GENERATION_COST),
                     TokenBalanceRecord(RICH_BALANCE)}

\* What the service calls leave alone: the application's state.
appVars == <<dbPokemons, dbAchievements, memVars, message, modalVars, bonusVars,
             now, credits>>

\* getTokenBalance() / getPlayerSettings() is called.
GetOrCreateCall(s) ==
  /\ procs[s].pc = "idle" /\ ops > 0
  /\ \E c \in {<<"getTokenBalance", initialBalance>>,
               <<"getPlayerSettings", defaultSettings>>} :
       procs' = [procs EXCEPT ![s] = Call(c[1], "get", c[2])]
  /\ ops' = ops - 1
  /\ last' = Ev("call", NoCall)
  /\ UNCHANGED <<dbSettings, faults, appVars>>

\* updateTokenBalance(newAmount) / updatePlayerSettings(settings) is called.
UpsertCall(s) ==
  /\ procs[s].pc = "idle" /\ ops > 0
  /\ \/ \E rec \in BalanceArguments :
          procs' = [procs EXCEPT ![s] = Call("updateTokenBalance", "put", rec)]
     \/ \E rec \in SettingsArguments :
          procs' = [procs EXCEPT ![s] = Call("updatePlayerSettings", "put", rec)]
  /\ ops' = ops - 1
  /\ last' = Ev("call", NoCall)
  /\ UNCHANGED <<dbSettings, faults, appVars>>

\* store.get(key) succeeds: the stored record is the result, or the default
\* is to be added.
StoreGet(s) ==
  /\ procs[s].pc = "get" /\ TxRuns(s)
  /\ IF procs[s].rec.id \in DOMAIN dbSettings
     THEN /\ procs' = Finished(s)
          /\ last' = Resolved(procs[s], dbSettings[procs[s].rec.id], FALSE)
     ELSE /\ procs' = [procs EXCEPT ![s].pc = "add"]
          /\ last' = Ev("await", NoCall)
  /\ UNCHANGED <<dbSettings, ops, faults, appVars>>

\* store.add(default) of a get-or-create ends.
StoreAdd(s) ==
  /\ procs[s].pc = "add" /\ TxRuns(s)
  /\ \E outcome \in WriteOutcomes :
       /\ StoreAddFails(dbSettings, procs[s].rec) => outcome = "reject"
       /\ StoreAddFails(dbSettings, procs[s].rec) \/ CanEnd(outcome)
       /\ faults' = IF StoreAddFails(dbSettings, procs[s].rec) THEN faults
                     ELSE FaultsAfter(outcome)
       /\ dbSettings' = Written(dbSettings, procs[s].rec, outcome)
       /\ last' = IF outcome = "reject"
                  THEN Rejected(procs[s],
                                IF StoreAddFails(dbSettings, procs[s].rec)
                                THEN "ConstraintError" ELSE "UnknownError")
                  ELSE Resolved(procs[s], procs[s].rec, TRUE)
  /\ procs' = Finished(s)
  /\ UNCHANGED <<ops, appVars>>

\* store.put(record) of an upsert ends.
StorePutEnds(s) ==
  /\ procs[s].pc = "put" /\ TxRuns(s)
  /\ \E outcome \in WriteOutcomes :
       /\ CanEnd(outcome)
       /\ faults' = FaultsAfter(outcome)
       /\ dbSettings' = Written(dbSettings, procs[s].rec, outcome)
       /\ last' = IF outcome = "reject" THEN Rejected(procs[s], "UnknownError")
                  ELSE Resolved(procs[s], procs[s].rec, TRUE)
  /\ procs' = Finished(s)
  /\ UNCHANGED <<ops, appVars>>

\* The 'settings' store of a first run, or of a player whose balance and
\* settings are not the defaults.
ServiceStores ==
  LET stored == {TokenBalanceRecord(RICH_BALANCE),
                 PlayerSettingsRecord("light", FALSE, "Ash")}
  IN {[k \in {r.id : r \in recs} |-> CHOOSE r \in recs : r.id = k] :
        recs \in SUBSET stored}

ServiceInit ==
  /\ dbSettings \in ServiceStores
  /\ dbPokemons = [k \in {} |-> NoPokemon]
  /\ dbAchievements = [k \in {} |-> NoAchievement]
  /\ pokemons = <<>>
  /\ tokenBalance = 0
  /\ achievements = <<>>
  /\ isLoading = TRUE
  /\ isGeneratingPokemon = FALSE
  /\ message = NoMessage
  /\ isModalOpen = FALSE
  /\ modalOnConfirm = NoClosure
  /\ isModalConfirmLoading = FALSE
  /\ isDailyBonusModalOpen = FALSE
  /\ dailyBonusAmount = 0
  /\ procs = [s \in Slots |-> NoCall]
  /\ now = 0
  /\ ops = MaxServiceOps
  /\ faults = 0
  /\ credits = [d \in Days |-> 0]
  /\ last = Ev("init", NoCall)

ServiceNext ==
  \/ \E s \in Slots : GetOrCreateCall(s)
  \/ \E s \in Slots : UpsertCall(s)
  \/ \E s \in Slots : StoreGet(s)
  \/ \E s \in Slots : StoreAdd(s)
  \/ \E s \in Slots : StorePutEnds(s)

ServiceSpec == ServiceInit /\ [][ServiceNext]_vars

(***************************************************************************)
(* pokemonApiService.generatePokemon as a function of what the endpoint    *)
(* answers.  A JSON field is absent (undefined) or holds a string.         *)
(***************************************************************************)
Absent == [present |-> FALSE, v |-> ""]
Text(v) == [present |-> TRUE, v |-> v]

\* JavaScript's !x for a field that is undefined or a string.
Not(x) == ~x.present \/ x.v = ""

\* Rarity codes of the endpoint, with two it does not define.
BodyRarityCodes == ApiRarityCodes \cup {"f"}

FieldValues(vs) == {Absent, Text("")} \cup {Text(v) : v \in vs}

NoMetadata == [present |-> FALSE, id |-> Absent, name |-> Absent, rarity |-> Absent]
NullBody ==
  [present |-> FALSE, imageBase64 |-> Absent, metadata |-> NoMetadata,
   generatedAt |-> Absent]

\* The bodies res.json() can give.
Bodies ==
  {NullBody}
    \cup [present : {TRUE}, imageBase64 : FieldValues({"image"}),
          metadata : {NoMetadata}
                       \cup [present : {TRUE}, id : FieldValues({"id1"}),
                             name : FieldValues({"name"}),
                             rarity : FieldValues(BodyRarityCodes)],
          generatedAt : FieldValues({"2024-01-01T00:00:00Z"})]

\* What fetch comes to: it resolves (res.ok or not) or it rejects.
ApiResponses ==
  [fetch : {"ok"}, data : Bodies]
    \cup [fetch : {"notOk", "AbortError", "Failed to fetch"}, data : {NullBody}]

\* The test on the timestamp is left out.
HasExpectedFields_NoTimestamp(data) ==
  ~(\/ ~data.present
    \/ Not(data.imageBase64)
    \/ ~data.metadata.present
    \/ Not(data.metadata.id)
    \/ Not(data.metadata.name)
    \/ Not(data.metadata.rarity))
\* The fields generatePokemon requires of a body.
HasExpectedFields(data) ==
  ~(\/ ~data.present
    \/ Not(data.imageBase64)
    \/ ~data.metadata.present
    \/ Not(data.metadata.id)
    \/ Not(data.metadata.name)
    \/ Not(data.metadata.rarity)
    \/ Not(data.generatedAt))

NoReturn ==
  [id |-> Absent, name |-> Absent, rarity |-> "", imageBase64 |-> Absent,
   generatedAt |-> Absent, status |-> "", isFavorite |-> FALSE]

\* generatePokemon(): the item it returns or the error it throws.
generatePokemon(res) ==
  LET data == res.data
      Throws(error) == [res |-> res, returned |-> FALSE, pokemon |-> NoReturn,
                        error |-> error]
  IN CASE res.fetch = "AbortError" -> Throws("timeout")
       [] res.fetch = "Failed to fetch" -> Throws("unreachable")
       [] res.fetch = "notOk" -> Throws("rejected")
       [] OTHER ->
            IF ~HasExpectedFields(data) THEN Throws("malformed")
            ELSE [res |-> res, returned |-> TRUE, error |-> "",
                  pokemon |->
                    [id |-> data.metadata.id,
                     name |-> data.metadata.name,
                     rarity |-> mapApiRarityToEnum(data.metadata.rarity.v),
                     imageBase64 |-> data.imageBase64,
                     generatedAt |-> data.generatedAt,
                     status |-> "OWNED",
                     isFavorite |-> FALSE]]

\* One call of generatePokemon.
Generate ==
  /\ \E res \in ApiResponses : last' = Ev("generatePokemon", generatePokemon(res))
  /\ UNCHANGED <<dbVars, memVars, message, modalVars, bonusVars, procs, now, ops,
                 faults, credits>>

ApiInit == FirstRun /\ Mounted(0)
ApiNext == Generate
ApiSpec == ApiInit /\ [][ApiNext]_vars

(***************************************************************************)
(* A returning player with one Common item trades it while generating.     *)
(***************************************************************************)
MaxMarketOps == 3

MarketInit ==
  /\ \E st \in {"OWNED", "RESOLD"} : Returning("COMMON", st, RICH_BALANCE)
  /\ Mounted(MaxMarketOps)

MarketNext ==
  \/ \E s \in Slots : LoadFetch(s)
  \/ \E s \in Slots : AchStep(s)
  \/ GenStart
  \/ \E s \in Slots : GenDebit(s)
  \/ \E s \in Slots : GenRemote(s)
  \/ \E s \in Slots : GenInsert(s)
  \/ \E s \in Slots : GenRollback(s)
  \/ OpenResell
  \/ CloseModal
  \/ ConfirmResell
  \/ \E s \in Slots : ResellItem(s)
  \/ \E s \in Slots : ResellBalance(s)
  \/ BuyStart
  \/ \E s \in Slots : BuyItem(s)
  \/ \E s \in Slots : BuyBalance(s)

MarketSpec == MarketInit /\ [][MarketNext]_vars

(***************************************************************************)
(* Generations with the remote await step by step, and what is sure to     *)
(* happen: a pending store request completes, and a pending fetch rejects  *)
(* when its timer fires.  That the remote answers is not.                  *)
(***************************************************************************)
MaxLiveOps == 2

LiveInit == FirstRun /\ Mounted(MaxLiveOps)

LiveNext ==
  \/ \E s \in Slots : LoadFetch(s)
  \/ \E s \in Slots : AchStep(s)
  \/ GenStart
  \/ \E s \in Slots : GenDebit(s)
  \/ \E s \in Slots : GenFetch(s)
  \/ \E s \in Slots : GenFetchRejects(s)
  \/ \E s \in Slots : GenJson(s)
  \/ \E s \in Slots : GenInsert(s)
  \/ \E s \in Slots : GenRollback(s)

LiveFairness ==
  \A s \in Slots :
    /\ WF_vars(LoadFetch(s)) /\ WF_vars(AchStep(s))
    /\ WF_vars(GenDebit(s)) /\ WF_vars(GenInsert(s)) /\ WF_vars(GenRollback(s))
    /\ WF_vars(GenFetchRejects(s))

LiveSpec == LiveInit /\ [][LiveNext]_vars /\ LiveFairness

(***************************************************************************)
(* Properties.                                                             *)
(***************************************************************************)
\* The resale values as the specification tabulates them.
ResaleValueTable ==
  [r \in Rarities |->
     CASE r = "COMMON" -> 5 [] r = "RARE" -> 10 [] r = "EPIC" -> 20
       [] r = "LEGENDARY" -> 40 [] r = "MYTHIC" -> 80]

HasId(items, id) == \E i \in 1..Len(items) : items[i].id = id
StatusIn(items, id, status) ==
  \E i \in 1..Len(items) : items[i].id = id /\ items[i].status = status

\* C1: the in-memory balance and the persisted balance are never negative,
\* whatever intents were issued and whichever of their calls failed.
C1_BalanceNeverNegative ==
  /\ tokenBalance >= 0
  /\ HasBalance => PersistedBalance >= 0

\* A purchase has settled and has spent the whole balance.
C1_Witness ==
  /\ last.ev = "buyOk"
  /\ tokenBalance = 0
  /\ HasBalance /\ PersistedBalance = 0

\* The attempt of last.p, a generation whose remote call or insert failed,
\* has settled.
GenerationFailed ==
  /\ last.ev \in {"genRolledBack", "genRollbackThrew"}
  /\ last.p.cause \in {"remote", "insert"}

\* The balance is B again in the store and in memory, and there is no new item.
Restored(p) ==
  /\ HasBalance /\ PersistedBalance = p.mem0
  /\ tokenBalance = p.mem0
  /\ Cardinality(DOMAIN dbPokemons) = p.n0
  /\ pokemons = p.pokemons

\* C2: a generation started with balance B whose remote call or item insert
\* failed leaves, once settled, the persisted and the in-memory balance at B
\* and no new item -- provided its compensating write was committed and no
\* other handler was in flight during the attempt.
C2_RollbackRestores ==
  (GenerationFailed /\ last.ev = "genRolledBack" /\ last.p.alone /\ ~last.p.late)
    => Restored(last.p)

\* C2 as stated: whenever such a generation has settled.
C2_Original == GenerationFailed => Restored(last.p)

\* The insert of a generated item failed and the balance was restored.
C2_Witness ==
  /\ GenerationFailed /\ last.ev = "genRolledBack" /\ last.p.alone /\ ~last.p.late
  /\ last.p.cause = "insert"
  /\ last.p.mem0 = RICH_BALANCE
  /\ PersistedBalance = RICH_BALANCE

\* C3: generate invoked with a balance under 10 starts nothing: no
\* invocation is created (so no write and no remote call is issued), the
\* store and the in-memory balance are unchanged, a warning is shown.
C3_GenerateRefused ==
  [][(last'.ev \in {"genStart", "genRefused"} /\ tokenBalance < 10)
       => /\ last'.ev = "genRefused"
          /\ procs' = procs
          /\ dbVars' = dbVars
          /\ tokenBalance' = tokenBalance
          /\ isGeneratingPokemon' = isGeneratingPokemon
          /\ message'.type = "warning"]_vars

\* A loaded session with a balance under the cost has refused a generation.
C3_Witness ==
  /\ last.ev = "genRefused"
  /\ ~isLoading /\ Reconciled
  /\ tokenBalance > 0 /\ tokenBalance < 10
  /\ message.type = "warning"

\* C4: buy(item) invoked with a balance under twice the resale value of the
\* item's rarity starts nothing: no write is issued, the balance and the
\* item (in memory and in the store) are unchanged.
C4_BuyRefused ==
  [][(/\ last'.ev \in {"buyStart", "buyRefused"}
      /\ tokenBalance < 2 * ResaleValueTable[last'.p.pokemon.rarity])
       => /\ last'.ev = "buyRefused"
          /\ procs' = procs
          /\ dbVars' = dbVars
          /\ tokenBalance' = tokenBalance
          /\ pokemons' = pokemons]_vars

\* A purchase was refused in a loaded session.
C4_Witness ==
  /\ last.ev = "buyRefused"
  /\ ~isLoading /\ Reconciled
  /\ tokenBalance < 2 * ResaleValueTable[last.p.pokemon.rarity]
  /\ StatusIn(pokemons, last.p.pokemon.id, "RESOLD")
  /\ dbPokemons[last.p.pokemon.id].status = "RESOLD"

\* The logs of the generations in flight and of the one that just settled.
GenLogs ==
  {procs[s].log : s \in {t \in Slots : procs[t].kind = "gen"}}
    \cup (IF last.p.kind = "gen" THEN {last.p.log} ELSE {})

Before(log, i, e) == \E j \in 1..(i - 1) : log[j] = e

\* C5: in a generation the remote request is issued only after the write of
\* the debited balance has completed, the insert only after the remote call
\* has returned an item, the compensating write only after a step has failed.
C5_StepsOrdered ==
  \A log \in GenLogs : \A i \in 1..Len(log) :
    /\ log[i] = Issue("remote") => Before(log, i, Done("debit"))
    /\ log[i] = Issue("insert") => Before(log, i, Done("remote"))
    /\ log[i] = Issue("rollback") => \E j \in 1..(i - 1) : log[j].e = "fail"

\* A generation went through its three calls and, the insert failing,
\* through the compensating write.
C5_Witness ==
  /\ last.ev = "genRolledBack"
  /\ last.p.log = <<Issue("debit"), Done("debit"), Issue("remote"), Done("remote"),
                    Issue("insert"), Fail("insert"), Issue("rollback"), Done("rollback")>>

\* The resale of last.p has its effect: the item is Resold in the store and
\* in memory, both balances are up by the tabulated value, the item is out
\* of the Owned view and in the market view.
Resold(p) ==
  LET id == p.pokemon.id
      value == ResaleValueTable[p.pokemon.rarity]
  IN /\ id \in DOMAIN dbPokemons /\ dbPokemons[id].status = "RESOLD"
     /\ StatusIn(pokemons, id, "RESOLD")
     /\ HasBalance /\ PersistedBalance = p.db0 + value
     /\ tokenBalance = p.mem0 + value
     /\ ~HasId(collectionPokemons("OWNED"), id)
     /\ HasId(marketPokemons("ALL"), id)

Bought(p) ==
  LET id == p.pokemon.id
      price == 2 * ResaleValueTable[p.pokemon.rarity]
  IN /\ id \in DOMAIN dbPokemons /\ dbPokemons[id].status = "OWNED"
     /\ StatusIn(pokemons, id, "OWNED")
     /\ HasBalance /\ PersistedBalance = p.db0 - price
     /\ tokenBalance = p.mem0 - price

C8_Original == \A d \in Days : credits[d] <= 1

\* The load of last step: a fetchAppData leaves its reads without failing.
FetchDone(s) ==
  /\ procs[s].pc = "fetch"
  /\ procs'[s].pc # "fetch"
  /\ last'.ev # "loadFail"

\* C9: the load offers a bonus exactly when there is no last-claimed record
\* or its calendar day is not the current one, and an offered amount is an
\* integer from 5 to 10.
C9_OfferAtLoad ==
  [][\A s \in Slots : FetchDone(s) =>
       LET due == \/ ~HasBonus
                  \/ ToDateString(dbSettings["dailyBonus"].lastClaimed) # ToDateString(now)
       IN /\ isDailyBonusModalOpen' <=> due
          /\ due => dailyBonusAmount' \in 5..10]_vars

\* A bonus was claimed, and a load on the next calendar day offers one again.
C9_Witness ==
  /\ last.ev = "loadOk"
  /\ isDailyBonusModalOpen
  /\ dailyBonusAmount = 10
  /\ HasBonus
  /\ ToDateString(dbSettings["dailyBonus"].lastClaimed) + 1 = ToDateString(now)
  /\ credits[ToDateString(dbSettings["dailyBonus"].lastClaimed)] = 1

\* An unlocked entry of `before` is in `after`, unlocked and with its date.
KeptIn(before, after) ==
  \A a \in before : a.unlocked =>
    \E b \in after : b.id = a.id /\ b.unlocked /\ b.unlockedAt = a.unlockedAt

\* C10: an achievement once unlocked stays unlocked and keeps its unlockedAt,
\* in the store and (within a session) in memory.
C10_Original ==
  [][/\ KeptIn(StoreToSet(dbAchievements), StoreToSet(dbAchievements'))
     /\ last'.ev # "reload" => KeptIn(SeqToSet(achievements), SeqToSet(achievements'))]_vars

\* The achievements a step unlocks in `after` that `before` had not unlocked.
NewlyUnlocked(before, after) ==
  {b.id : b \in {a \in after : a.unlocked /\
                   ~\E c \in before : c.id = a.id /\ c.unlocked}}

\* C11: evaluating the achievements again on an unchanged item set issues no
\* write for an achievement that is already unlocked (in the store, or in
\* the set the evaluation was given), leaves every unlocked achievement as
\* it is, in the store and in memory, and unlocks no achievement whose
\* predicate is false on the items.
C11_EvaluationIdempotent ==
  [][/\ KeptIn(StoreToSet(dbAchievements), StoreToSet(dbAchievements'))
     /\ last'.ev # "reload" => KeptIn(SeqToSet(achievements), SeqToSet(achievements'))
     /\ \A s \in Slots : procs'[s].pc = "ach" =>
          /\ ~IsUnlockedIn(AllAchievementsFrom(dbAchievements), procs'[s].pending.id)
          /\ ~\E a \in SeqToSet(procs'[s].achievements) :
                a.id = procs'[s].pending.id /\ a.unlocked
          /\ shouldUnlock(procs'[s].pending.id, GetPokemons)
     /\ \A id \in NewlyUnlocked(StoreToSet(dbAchievements), StoreToSet(dbAchievements'))
              \cup (IF last'.ev = "reload" THEN {}
                    ELSE NewlyUnlocked(SeqToSet(achievements), SeqToSet(achievements'))) :
          shouldUnlock(id, GetPokemons) \/ IsUnlockedIn(AllAchievementsFrom(dbAchievements), id)
    ]_vars

\* A page load evaluated the achievements again and wrote none: the store
\* holds FIRST_FORGE as an earlier load of this behaviour unlocked it.
C11_Witness ==
  /\ last.ev = "loadOk"
  /\ last.p.pc = "fetch"
  /\ ops < MaxIdemOps
  /\ "FIRST_FORGE" \in DOMAIN dbAchievements
  /\ dbAchievements["FIRST_FORGE"].unlockedAt >= TicksPerDay - 1
  /\ \E a \in SeqToSet(achievements) : a = dbAchievements["FIRST_FORGE"]

\* The generation of last.p has its effect: the balance is down by the cost,
\* the list holds the items it held and the new one, newest first, the first
\* forge is unlocked and the tenth is not before there are ten items.
Generated(p) ==
  /\ tokenBalance = p.mem0 - 10
  /\ (p.synced /\ ~p.late) => HasBalance /\ PersistedBalance = p.db0 - 10
  /\ Len(pokemons) = Len(p.pokemons) + 1
  /\ SeqToSet(pokemons) = SeqToSet(p.pokemons) \cup {p.pokemon}
  /\ \A i \in 1..(Len(pokemons) - 1) :
       pokemons[i].generatedAt >= pokemons[i + 1].generatedAt
  /\ \E a \in SeqToSet(achievements) : a.id = "FIRST_FORGE" /\ a.unlocked
  /\ Len(pokemons) < 10 =>
       ~\E a \in SeqToSet(achievements) : a.id = "TEN_FORGES" /\ a.unlocked

\* C12: a successful generation that ran from start to settle with no other
\* handler in flight takes the cost off the balance it started with, adds
\* its item to the list kept newest first, leaves FIRST_FORGE unlocked and
\* TEN_FORGES locked below ten items; n such generations in a row therefore
\* leave the balance at B - 10n and the list with the n items added.
C12_GenerationsInARow ==
  (last.ev = "genOk" /\ last.p.alone) => Generated(last.p)

\* The second of two generations in a row from the first run has settled:
\* balance 80, two items.
C12_Witness ==
  /\ last.ev = "genOk" /\ last.p.alone /\ last.p.synced /\ ~last.p.late
  /\ faults = 0
  /\ last.p.mem0 = DEFAULT_BALANCE - 10
  /\ tokenBalance = DEFAULT_BALANCE - 20
  /\ PersistedBalance = DEFAULT_BALANCE - 20
  /\ Len(last.p.pokemons) = 1
  /\ Len(pokemons) = 2

\* The steps in which an attempt ends in failure.
FailureEvents ==
  {"genRolledBack", "genRollbackThrew", "resellFail", "buyFail", "favFail",
   "claimThrew", "loadFail"}

\* C13: every attempt that fails is reported: the step in which it fails
\* leaves an error notification on display.
C13_Original ==
  [][last'.ev \in FailureEvents => message'.type = "error"]_vars

\* The entries of a store or of a list, the one with identifier id left out.
Others(items, id) == {q \in items : q.id # id}

\* C14: the completion of a favorite toggle changes the favorite flag of its
\* item and nothing else: not the balance, not the achievements, not another
\* item, not the status the store holds for the item.
C14_Original ==
  [][last'.ev \in {"favOk", "favFail"} =>
       LET id == last'.p.pokemon.id
       IN /\ dbSettings' = dbSettings /\ tokenBalance' = tokenBalance
          /\ dbAchievements' = dbAchievements /\ achievements' = achievements
          /\ Others(StoreToSet(dbPokemons'), id) = Others(StoreToSet(dbPokemons), id)
          /\ Others(SeqToSet(pokemons'), id) = Others(SeqToSet(pokemons), id)
          /\ id \in DOMAIN dbPokemons =>
               dbPokemons'[id].status = dbPokemons[id].status]_vars

\* C15: no step removes an item from the store, and no step changes the
\* identifier, name, rarity, image or creation timestamp of a stored item.
C15_Original ==
  [][\A k \in DOMAIN dbPokemons :
       /\ k \in DOMAIN dbPokemons'
       /\ dbPokemons'[k].id = dbPokemons[k].id
       /\ dbPokemons'[k].name = dbPokemons[k].name
       /\ dbPokemons'[k].rarity = dbPokemons[k].rarity
       /\ dbPokemons'[k].imageBase64 = dbPokemons[k].imageBase64
       /\ dbPokemons'[k].generatedAt = dbPokemons[k].generatedAt]_vars

\* The page load has succeeded: fetchAppData has set the achievements.
Loaded == ~isLoading /\ Len(achievements) = Len(ALL_ACHIEVEMENTS)

\* C16: with every store write so far committed and no handler in flight,
\* the in-memory balance is the persisted balance and the in-memory list
\* holds the persisted items, each once, with their status and favorite flag.
C16_Original ==
  (Loaded /\ Quiescent /\ faults = 0) =>
     /\ Reconciled
     /\ Len(pokemons) = Cardinality(DOMAIN dbPokemons)

\* C17: addPokemon of an item whose identifier is already in the store fails
\* (the generation goes to its catch with the insert as the cause) and
\* leaves the store as it is.
C17_DuplicateInsertFails ==
  [][\A s \in Slots :
       (/\ procs[s].pc = "insert"
        /\ procs'[s].pc # "insert"
        /\ last'.ev # "reload"
        /\ procs[s].pokemon.id \in DOMAIN dbPokemons)
       => /\ dbPokemons' = dbPokemons
          /\ procs'[s].pc = "rollback"
          /\ procs'[s].cause = "insert"]_vars

\* An insert has just failed on the key alone: no write has failed so far,
\* and the store holds another item under the identifier.
C17_Witness ==
  \E s \in Slots :
    /\ procs[s].pc = "rollback" /\ procs[s].cause = "insert"
    /\ faults = 0
    /\ procs[s].pokemon.id \in DOMAIN dbPokemons
    /\ dbPokemons[procs[s].pokemon.id].rarity # procs[s].pokemon.rarity

\* The get-or-create calls, their keys and the defaults of the specification.
GetOrCreateEnds ==
  last'.ev \in {"resolved", "rejected"}
    /\ last'.p.call \in {"getTokenBalance", "getPlayerSettings"}
KeyOfEnded == IF last'.p.call = "getTokenBalance" THEN "tokenBalance" ELSE "playerSettings"
DefaultOfEnded ==
  IF last'.p.call = "getTokenBalance"
  THEN [id |-> "tokenBalance", amount |-> 100]
  ELSE [id |-> "playerSettings", theme |-> "dark", isMuted |-> TRUE, playerName |-> "Ash"]

\* A get-or-create that ends finds the record and returns it without writing,
\* or returns the default; it never fails on the key.
RaceFreeStep ==
  GetOrCreateEnds =>
    /\ last'.p.error # "ConstraintError"
    /\ KeyOfEnded \in DOMAIN dbSettings =>
         /\ last'.ev = "resolved"
         /\ last'.p.result = dbSettings[KeyOfEnded]
         /\ ~last'.p.wrote
         /\ dbSettings' = dbSettings
    /\ (KeyOfEnded \notin DOMAIN dbSettings /\ last'.ev = "resolved") =>
         last'.p.result = DefaultOfEnded

\* A get-or-create that returns the default has persisted it.
PersistStep ==
  (GetOrCreateEnds /\ last'.ev = "resolved" /\ KeyOfEnded \notin DOMAIN dbSettings) =>
    /\ KeyOfEnded \in DOMAIN dbSettings'
    /\ dbSettings'[KeyOfEnded] = DefaultOfEnded

\* C18: get-or-create on a Settings singleton returns the stored record
\* without writing when there is one, and otherwise persists and returns the
\* default (balance 100; dark, muted, 'Ash'); under every interleaving with
\* other get-or-create and upsert calls it never replaces a stored value and
\* never fails with a duplicate key.
C18_Original == [][RaceFreeStep /\ PersistStep]_vars

\* The tiers as the specification tabulates them.
TierTable ==
  [c \in {"F", "E", "D", "C", "B", "A", "S", "S+"} |->
     CASE c \in {"F", "E"} -> "COMMON" [] c \in {"D", "C"} -> "RARE"
       [] c = "B" -> "EPIC" [] c \in {"A", "S"} -> "LEGENDARY" [] c = "S+" -> "MYTHIC"]

Called == last.ev = "generatePokemon"
Sent(x) == x.present /\ x.v # ""

\* C19: the rarity code of the response is mapped F,E -> Common; D,C -> Rare;
\* B -> Epic; A,S -> Legendary; S+ -> Mythic; every other non-empty code gives
\* an item of tier Common, not an error.
C19_RarityMapping ==
  Called =>
    LET data == last.p.res.data
        code == data.metadata.rarity
    IN (/\ last.p.res.fetch = "ok"
        /\ Sent(data.imageBase64) /\ Sent(data.metadata.id)
        /\ Sent(data.metadata.name) /\ Sent(data.generatedAt)
        /\ Sent(code))
       => /\ last.p.returned
          /\ last.p.pokemon.rarity =
               IF code.v \in DOMAIN TierTable THEN TierTable[code.v] ELSE "COMMON"

\* A code the endpoint does not define came back as an item of tier Common.
C19_Witness ==
  /\ Called /\ last.p.returned
  /\ last.p.res.data.metadata.rarity.v = "X"
  /\ last.p.pokemon.rarity = "COMMON"

\* C20: a success response without identifier, name, rarity code, image or
\* timestamp makes generatePokemon throw and return no item; an item that is
\* returned has the five fields set, status Owned and favorite false.
C20_MalformedResponseFails ==
  Called =>
    LET data == last.p.res.data
        lacks == \/ ~data.present \/ ~data.metadata.present
                 \/ ~data.metadata.id.present \/ ~data.metadata.name.present
                 \/ ~data.metadata.rarity.present \/ ~data.imageBase64.present
                 \/ ~data.generatedAt.present
    IN /\ (last.p.res.fetch = "ok" /\ lacks)
            => ~last.p.returned /\ last.p.error # "" /\ last.p.pokemon = NoReturn
       /\ last.p.returned
            => /\ Sent(last.p.pokemon.id) /\ Sent(last.p.pokemon.name)
               /\ last.p.pokemon.rarity \in Rarities
               /\ Sent(last.p.pokemon.imageBase64) /\ Sent(last.p.pokemon.generatedAt)
               /\ last.p.pokemon.status = "OWNED"
               /\ last.p.pokemon.isFavorite = FALSE

\* A success response that lacks the timestamp only has been refused.
C20_Witness ==
  /\ Called /\ last.p.res.fetch = "ok"
  /\ ~last.p.res.data.generatedAt.present
  /\ Sent(last.p.res.data.imageBase64) /\ Sent(last.p.res.data.metadata.id)
  /\ Sent(last.p.res.data.metadata.name) /\ Sent(last.p.res.data.metadata.rarity)
  /\ ~last.p.returned /\ last.p.error = "malformed"

\* The generation attempts in flight.
GenerationsInFlight == {s \in Slots : procs[s].kind = "gen"}

\* C21: at most one generation attempt is in flight at any time; a generate
\* intent issued while an attempt is between its debit and its settlement
\* starts no second attempt.
C21_Original == Cardinality(GenerationsInFlight) <= 1

\* Invocation s issues the write its program counter `pc` names.
Issues(s, pc) == procs[s].pc # pc /\ procs'[s].pc = pc

\* C22: every balance write of a protocol is computed from the in-memory
\* balance as it is when the write is issued: the generation debit and the
\* bonus credit at their start, the resale credit and the purchase debit
\* after their item write, the refund in the catch.
C22_Original ==
  [][\A s \in Slots :
       /\ Issues(s, "debit") =>
            newBalanceAfterDeduction(procs'[s]) = tokenBalance - GENERATION_COST
       /\ Issues(s, "c_bal") =>
            procs'[s].tokenBalance + procs'[s].amount = tokenBalance + dailyBonusAmount
       /\ Issues(s, "r_bal") =>
            procs'[s].tokenBalance + procs'[s].amount
              = tokenBalance + getResellValue(procs'[s].pokemon.rarity)
       /\ Issues(s, "b_bal") =>
            procs'[s].tokenBalance - procs'[s].amount
              = tokenBalance - getBuyPrice(procs'[s].pokemon.rarity)
       /\ Issues(s, "rollback") =>
            originalTokenBalance(procs'[s]) = tokenBalance + GENERATION_COST]_vars

\* The compensating write of a failed generation has failed as well.
DoubleFailure == last'.ev = "genRollbackThrew"

\* C23: when the remote call or the insert of a generation fails and the
\* compensating balance write fails too, the error is shown to the user, the
\* in-memory balance is the balance from before the debit and the generating
\* flag is cleared.
C23_Original ==
  [][DoubleFailure =>
       /\ message'.type = "error"
       /\ last'.p.alone => tokenBalance' = last'.p.mem0
       /\ ~isGeneratingPokemon']_vars

\* C24: every generation attempt that has started eventually settles, by the
\* timeout if the remote has not delivered a complete response, and the
\* generating flag is false again.
C24_Original ==
  \A s \in Slots :
    (procs[s].kind = "gen") ~> (procs[s].kind # "gen" /\ ~isGeneratingPokemon)

\* The predicates of the four definitions as the specification states them,
\* on a set of items.
PredicateHolds(id, items) ==
  CASE id = "FIRST_FORGE" -> Cardinality(items) >= 1
    [] id = "TEN_FORGES" -> Cardinality(items) >= 10
    [] id = "FIRST_SALE" -> \E q \in items : q.status = "RESOLD"
    [] id = "LEGENDARY_FORGE" -> \E q \in items : q.rarity \in {"LEGENDARY", "MYTHIC"}

UnlockedInStore(id) == id \in DOMAIN dbAchievements /\ dbAchievements[id].unlocked

\* C25: once a generation or a resale has settled successfully, every
\* achievement whose predicate holds on the persisted items is unlocked in
\* the store and in memory.
C25_Original ==
  last.ev \in {"genOk", "resellOk"} =>
    \A id \in AchIds :
      PredicateHolds(id, StoreToSet(dbPokemons)) =>
        UnlockedInStore(id) /\ IsUnlockedIn(achievements, id)

\* A generation attempt has settled, in success or in its catch.
GenerationSettled == last.ev \in {"genOk", "genRolledBack", "genRollbackThrew"}

\* C26: for a generation attempt started with balance B that has settled, a
\* new item is persisted if and only if the persisted balance is B - 10
\* (attempts that ran with no other handler in flight, started with the
\* in-memory balance equal to the persisted one).
C26_Original ==
  (GenerationSettled /\ last.p.alone /\ last.p.synced) =>
    (Cardinality(DOMAIN dbPokemons) = last.p.n0 + 1
       <=> PersistedBalance = last.p.db0 - GENERATION_COST)

\* The status a resale or a purchase gives its item, and the balance it
\* writes, from the balance B the store held when it started.
TargetStatus(p) == IF p.kind = "resell" THEN "RESOLD" ELSE "OWNED"
TargetBalance(p) ==
  IF p.kind = "resell" THEN p.db0 + ResaleValueTable[p.pokemon.rarity]
  ELSE p.db0 - 2 * ResaleValueTable[p.pokemon.rarity]

\* C27: a resale or a purchase that has failed at one of its store writes
\* leaves the persisted status of its item and the persisted balance both
\* updated or both as they were before the attempt, and the in-memory mirror
\* equal to them (attempts that ran with no other handler in flight, started
\* with the mirror equal to the store).
C27_Original ==
  (/\ last.ev \in {"resellFail", "buyFail"}
   /\ last.p.alone /\ last.p.synced
   /\ last.p.pokemon.id \in DOMAIN dbPokemons)
  => LET status == dbPokemons[last.p.pokemon.id].status
     IN /\ \/ status = last.p.pokemon.status /\ PersistedBalance = last.p.db0
           \/ status = TargetStatus(last.p) /\ PersistedBalance = TargetBalance(last.p)
        /\ Reconciled

\* The item write of resale or purchase s has been acknowledged: the handler
\* goes on to its balance write.
ItemWritten(s, from, to) == procs[s].pc = from /\ procs'[s].pc = to

StoredStatus(store, id) == IF id \in DOMAIN store THEN store[id].status ELSE "NONE"

\* C28: the item write of every resale that goes on to its credit takes the
\* persisted item from Owned to Resold, and the item write of every purchase
\* that goes on to its debit takes it from Resold to Owned: no item is
\* credited twice with no purchase in between, none is bought while Owned.
C28_Original ==
  [][\A s \in Slots :
       LET id == procs[s].pokemon.id
       IN /\ ItemWritten(s, "r_item", "r_bal") =>
               /\ StoredStatus(dbPokemons, id) = "OWNED"
               /\ StoredStatus(dbPokemons', id) = "RESOLD"
          /\ ItemWritten(s, "b_item", "b_bal") =>
               /\ StoredStatus(dbPokemons, id) = "RESOLD"
               /\ StoredStatus(dbPokemons', id) = "OWNED"]_vars

\* What the balance write an invocation is waiting for credits (debits when
\* negative), by the specification's amounts.
Delta(p) ==
  CASE p.pc = "debit" -> 0 - 10
    [] p.pc = "rollback" -> 10
    [] p.pc = "r_bal" -> ResaleValueTable[p.pokemon.rarity]
    [] p.pc = "b_bal" -> 0 - 2 * ResaleValueTable[p.pokemon.rarity]
    [] p.pc = "c_bal" -> p.amount

\* The balance write of invocation s is committed in this step.
BalanceWriteCommits(s) ==
  /\ procs[s].pc \in {"debit", "rollback", "r_bal", "b_bal", "c_bal"}
  /\ procs'[s].pc # procs[s].pc
  /\ last'.ev # "reload"
  /\ faults' = faults
  /\ HasBalance

\* C29: the persisted balance is conserved under interleaving: every
\* committed balance write of a generation, refund, resale, purchase or bonus
\* claim moves the persisted balance by that protocol's amount, so that no
\* credit, debit or refund is lost or applied twice.
C29_Original ==
  [][\A s \in Slots :
       BalanceWriteCommits(s) =>
         dbSettings'["tokenBalance"].amount = PersistedBalance + Delta(procs[s])]_vars

\* C30: a write reports success to its caller only if its transaction
\* commits: when a call that wrote resolves, the store holds the record it
\* resolved with.
C30_Original ==
  [][(last'.ev = "resolved" /\ last'.p.wrote) =>
       /\ last'.p.result.id \in DOMAIN dbSettings'
       /\ dbSettings'[last'.p.result.id] = last'.p.result]_vars

====
